---- MODULE Spec2Model ----
(***************************************************************************)
(* Model of the gck language front end: the Myrmidon driver                *)
(* (src/frontend/myrmidon/myrmidon.go: Compile, AST, newLexer, the lexer   *)
(* context) and the goyacc parser yyParse with its tables                  *)
(* (src/frontend/sml/lang.go).                                             *)
(*                                                                         *)
(* Go slices are 0-based; the tables below are TLA+ tuples, read through   *)
(* Idx(tab, i) == tab[i + 1].  A Go pointer is an index into heap, 0 is    *)
(* nil.  A nilable value is a sequence: <<>> is nil, <<v>> is &v.          *)
(***************************************************************************)
EXTENDS Integers, Sequences, FiniteSets, TLC

VARIABLES
  heap,     \* the yylexer objects allocated so far (newLexer's y), by address
  d,        \* lang.go:12  var d *yylexer, the package-level lexer pointer
  m,        \* the Myrmidon instances: [lexer, src, mtx]
  th,       \* the goroutines calling into the driver
  calls,    \* number of driver calls started so far
  crashed,  \* the process was aborted (a panic or log.Fatal)
  succeeded \* history: the instances on which some Compile has returned nil

vars == <<heap, d, m, th, calls, crashed, succeeded>>

----------------------------------------------------------------------------
(* Token codes, lang.go:23-39, and the engine's constants.                 *)

INTEGER == 57346
IDENTIFIER == 57347
VAR == 57348
CONST == 57349
NUMBER == 57350
WHILE == 57351
IF_ == 57352
ELSE_ == 57353
EOL == 57354
ASSIGN == 57355
LE == 57356
GE == 57357
NE == 57358
EQ == 57359
LT == 57360
GT == 57361
UMINUS == 57362

yyEofCode == 1
yyErrCode == 2
yyMaxDepth == 200
yyNprod == 33
yyPrivate == 57344
yyLast == 126
yyFlag == -1000

\* Single-character tokens are returned by the lexer as their byte value.
PLUS == 43
MINUS == 45
STAR == 42
SLASH == 47
SEMI == 59
LBRACE == 123
RBRACE == 125
LPAREN == 40
RPAREN == 41

Idx(tab, i) == tab[i + 1]

----------------------------------------------------------------------------
(* The parsing tables, copied from the generated source.                   *)

\* yyExca: src/frontend/sml/lang.go:73-77 (6 entries; Go index i is TLA+ index i+1)
yyExca ==
  <<
     -1, 1, 1, -1, -2, 0
  >>

\* yyAct: src/frontend/sml/lang.go:87-102 (126 entries; Go index i is TLA+ index i+1)
yyAct ==
  <<
     9, 8, 5, 57, 17, 42, 43, 44, 45, 40,
     41, 20, 21, 22, 23, 16, 25, 27, 29, 29,
     38, 22, 23, 33, 34, 35, 36, 37, 24, 39,
     59, 17, 48, 47, 10, 12, 2, 1, 11, 15,
     16, 6, 58, 51, 52, 53, 54, 55, 56, 3,
     7, 13, 18, 0, 32, 4, 17, 49, 14, 0,
     60, 61, 10, 12, 28, 0, 11, 15, 16, 20,
     21, 22, 23, 10, 26, 0, 0, 11, 38, 13,
     0, 31, 18, 4, 17, 0, 14, 10, 26, 0,
     13, 11, 0, 0, 0, 46, 0, 14, 20, 21,
     22, 23, 0, 50, 13, 20, 21, 22, 23, 0,
     19, 30, 42, 43, 44, 45, 40, 41, 20, 21,
     22, 23, 20, 21, 22, 23
  >>

\* yyPact with state 33 (expr '+' expr .) given the row of state 27
\* ('(' expr .), which shifts every binary operator.
yyPactAddShifts ==
  <<
     58, -1000, 58, -1000, -1000, 85, -1000, -1000, -1000, -1000,
     -1000, -1000, 15, 69, 69, 83, 83, 58, -1000, -1000,
     69, 69, 69, 69, 69, -1000, -1000, 49, -22, 98,
     83, -22, 30, 49, -1, -1000, -1000, 78, -1000, -1000,
     69, 69, 69, 69, 69, 69, -26, -9, 19, -1000,
     -1000, 102, 102, 102, 102, 102, 102, -1000, -1000, 5,
     -1000, -1000
  >>

\* yyPact with state 33 (expr '+' expr .) reducing on every lookahead.
yyPactAddReduces ==
  <<
     58, -1000, 58, -1000, -1000, 85, -1000, -1000, -1000, -1000,
     -1000, -1000, 15, 69, 69, 83, 83, 58, -1000, -1000,
     69, 69, 69, 69, 69, -1000, -1000, 49, -22, 98,
     83, -22, 30, -1000, -1, -1000, -1000, 78, -1000, -1000,
     69, 69, 69, 69, 69, 69, -26, -9, 19, -1000,
     -1000, 102, 102, 102, 102, 102, 102, -1000, -1000, 5,
     -1000, -1000
  >>

\* yyPact with state 25 ('-' expr .) consulting the lookahead for a shift.
yyPactUminusShifts ==
  <<
     58, -1000, 58, -1000, -1000, 85, -1000, -1000, -1000, -1000,
     -1000, -1000, 15, 69, 69, 83, 83, 58, -1000, -1000,
     69, 69, 69, 69, 69, -1, -1000, 49, -22, 98,
     83, -22, 30, -1, -1, -1000, -1000, 78, -1000, -1000,
     69, 69, 69, 69, 69, 69, -26, -9, 19, -1000,
     -1000, 102, 102, 102, 102, 102, 102, -1000, -1000, 5,
     -1000, -1000
  >>

\* yyPact: src/frontend/sml/lang.go:103-112 (62 entries; Go index i is TLA+ index i+1)
yyPact ==
  <<
     58, -1000, 58, -1000, -1000, 85, -1000, -1000, -1000, -1000,
     -1000, -1000, 15, 69, 69, 83, 83, 58, -1000, -1000,
     69, 69, 69, 69, 69, -1000, -1000, 49, -22, 98,
     83, -22, 30, -1, -1, -1000, -1000, 78, -1000, -1000,
     69, 69, 69, 69, 69, 69, -26, -9, 19, -1000,
     -1000, 102, 102, 102, 102, 102, 102, -1000, -1000, 5,
     -1000, -1000
  >>

\* yyPgo: src/frontend/sml/lang.go:113-117 (11 entries; Go index i is TLA+ index i+1)
yyPgo ==
  <<
     0, 49, 36, 2, 64, 50, 1, 42, 0, 41,
     37
  >>

\* yyR1: src/frontend/sml/lang.go:118-124 (33 entries; Go index i is TLA+ index i+1)
yyR1 ==
  <<
     0, 10, 1, 1, 1, 1, 1, 1, 2, 2,
     8, 9, 5, 6, 7, 7, 7, 4, 4, 4,
     4, 4, 4, 4, 3, 3, 3, 3, 3, 3,
     3, 3, 3
  >>

\* yyR2: src/frontend/sml/lang.go:125-131 (33 entries; Go index i is TLA+ index i+1)
yyR2 ==
  <<
     0, 1, 1, 2, 1, 1, 1, 1, 1, 2,
     3, 4, 3, 4, 0, 2, 2, 3, 3, 3,
     3, 3, 3, 3, 1, 1, 1, 2, 3, 3,
     3, 3, 3
  >>

\* yyChk with state 60 entered by the error token, which state 0 then shifts.
yyChkErrorShift ==
  <<
     -1000, -10, -2, -1, 25, -3, -9, -5, -6, -8,
     4, 8, 5, 21, 28, 9, 10, 26, -1, 25,
     20, 21, 22, 23, 13, -3, 5, -3, -4, -3,
     28, -4, -2, -3, -3, -3, -3, -3, 29, -8,
     18, 19, 14, 15, 16, 17, -4, -3, -8, 27,
     25, -3, -3, -3, -3, -3, -3, 29, -7, 11,
     2, -6
  >>

\* yyChk: src/frontend/sml/lang.go:132-141 (62 entries; Go index i is TLA+ index i+1)
yyChk ==
  <<
     -1000, -10, -2, -1, 25, -3, -9, -5, -6, -8,
     4, 8, 5, 21, 28, 9, 10, 26, -1, 25,
     20, 21, 22, 23, 13, -3, 5, -3, -4, -3,
     28, -4, -2, -3, -3, -3, -3, -3, 29, -8,
     18, 19, 14, 15, 16, 17, -4, -3, -8, 27,
     25, -3, -3, -3, -3, -3, -3, 29, -7, 11,
     -8, -6
  >>

\* yyDef with no default reduction in state 4 (';' .).
yyDefNoEos ==
  <<
     0, -2, 1, 8, 0, 0, 4, 5, 6, 7,
     24, 25, 26, 0, 0, 0, 0, 0, 9, 3,
     0, 0, 0, 0, 0, 27, 26, 0, 0, 0,
     0, 0, 0, 28, 29, 30, 31, 0, 32, 12,
     0, 0, 0, 0, 0, 0, 0, 0, 14, 10,
     11, 17, 18, 19, 20, 21, 22, 23, 13, 0,
     15, 16
  >>

\* yyDef: src/frontend/sml/lang.go:142-151 (62 entries; Go index i is TLA+ index i+1)
yyDef ==
  <<
     0, -2, 1, 8, 2, 0, 4, 5, 6, 7,
     24, 25, 26, 0, 0, 0, 0, 0, 9, 3,
     0, 0, 0, 0, 0, 27, 26, 0, 0, 0,
     0, 0, 0, 28, 29, 30, 31, 0, 32, 12,
     0, 0, 0, 0, 0, 0, 0, 0, 14, 10,
     11, 17, 18, 19, 20, 21, 22, 23, 13, 0,
     15, 16
  >>

\* yyTok1: src/frontend/sml/lang.go:152-167 (126 entries; Go index i is TLA+ index i+1)
yyTok1 ==
  <<
     1, 3, 3, 3, 3, 3, 3, 3, 3, 3,
     3, 3, 3, 3, 3, 3, 3, 3, 3, 3,
     3, 3, 3, 3, 3, 3, 3, 3, 3, 3,
     3, 3, 3, 3, 3, 3, 3, 3, 3, 3,
     28, 29, 22, 20, 3, 21, 3, 23, 3, 3,
     3, 3, 3, 3, 3, 3, 3, 3, 3, 25,
     3, 3, 3, 3, 3, 3, 3, 3, 3, 3,
     3, 3, 3, 3, 3, 3, 3, 3, 3, 3,
     3, 3, 3, 3, 3, 3, 3, 3, 3, 3,
     3, 3, 3, 3, 3, 3, 3, 3, 3, 3,
     3, 3, 3, 3, 3, 3, 3, 3, 3, 3,
     3, 3, 3, 3, 3, 3, 3, 3, 3, 3,
     3, 3, 3, 26, 3, 27
  >>

\* yyTok2: src/frontend/sml/lang.go:168-172 (19 entries; Go index i is TLA+ index i+1)
yyTok2 ==
  <<
     2, 3, 4, 5, 6, 7, 8, 9, 10, 11,
     12, 13, 14, 15, 16, 17, 18, 19, 24
  >>

\* yyTok3: src/frontend/sml/lang.go:173-175 (1 entries; Go index i is TLA+ index i+1)
yyTok3 ==
  <<
     0
  >>

----------------------------------------------------------------------------
(* AST nodes (package ast, which the parser's actions call).  A node is a  *)
(* record; kind "nil" is Go's zero ast.Node.  d is the debug pointer.      *)

ZeroNode ==
  [kind |-> "nil", op |-> "", nodes |-> <<>>, integer |-> 0,
   number |-> <<>>, identifier |-> <<>>, d |-> <<>>]

NewOperand(dbg, op, nodes) ==
  [ZeroNode EXCEPT !.kind = "operand", !.op = op, !.nodes = nodes, !.d = dbg]

NewInteger(dbg, i) ==
  [ZeroNode EXCEPT !.kind = "leaf", !.op = "Integer", !.integer = i, !.d = dbg]

NewNumber(dbg, r) ==
  [ZeroNode EXCEPT !.kind = "leaf", !.op = "Number", !.number = r, !.d = dbg]

NewIdentifier(dbg, s) ==
  [ZeroNode EXCEPT !.kind = "leaf", !.op = "Identifier", !.identifier = s, !.d = dbg]

----------------------------------------------------------------------------
(* Sources.  A source text is given by its tokenisation: each token has    *)
(* the code the lexer returns for it, its text s (a sequence of            *)
(* characters) and its position.  linesErr says that splitting the text    *)
(* into lines fails.                                                       *)

Tk(c, s, line, col) == [c |-> c, s |-> s, line |-> line, col |-> col]

RECURSIVE LineText(_, _, _)
LineText(toks, n, i) ==
  IF i > Len(toks) THEN <<>>
  ELSE (IF toks[i].line = n THEN toks[i].s ELSE <<>>) \o LineText(toks, n, i + 1)

\* driver.LineGenerator: lines[0] is a pad, lines[n] is the text of line n.
LineGenerator(src) ==
  [lines |-> [i \in 1..(src.nlines + 1) |-> LineText(src.toks, i - 1, 1)],
   err   |-> IF src.linesErr THEN <<"LineGenerator">> ELSE <<>>]

----------------------------------------------------------------------------
(* The lexer context, myrmidon.go:90-180.                                  *)

ZeroSym ==
  [yys |-> 0, integer |-> 0, number |-> <<>>, identifier |-> <<>>,
   node |-> ZeroNode]

\* newLexer's y: line 1, and one byte read ahead when the source has one.
newLexer(src) ==
  [src |-> src, pos |-> 1, lastError |-> <<>>, line |-> 1, lines |-> <<>>,
   colStart |-> 0, colEnd |-> IF Len(src.toks) > 0 THEN 1 ELSE 0,
   tree |-> ZeroNode]

\* y.d(): nil lines, or a line beyond them, is an index-out-of-range panic.
DebugPanics(y) == y.line < 0 \/ y.line >= Len(y.lines)

DebugInfo(y) ==
  << [LineNo |-> y.line, ColStart |-> y.colStart, ColEnd |-> y.colEnd,
      Line |-> Idx(y.lines, y.line)] >>

\* Error with the span collapsed to the start column.
ErrorAtStart(y, e) ==
  [y EXCEPT !.lastError =
     << [line |-> y.line, colStart |-> y.colStart, colEnd |-> y.colStart,
         msg |-> e] >>]

\* y.Error(e)
Error(y, e) ==
  [y EXCEPT !.lastError =
     << [line |-> y.line, colStart |-> y.colStart, colEnd |-> y.colEnd,
         msg |-> e] >>]

Digits == <<"0", "1", "2", "3", "4", "5", "6", "7", "8", "9">>

IsDigit(ch) == \E i \in 1..10 : Digits[i] = ch

DigitVal(ch) == (CHOOSE i \in 1..10 : Digits[i] = ch) - 1

RECURSIVE StripZeros(_)
StripZeros(s) ==
  IF Len(s) > 1 /\ s[1] = "0" THEN StripZeros(Tail(s)) ELSE s

\* The decimal digits of the largest int (2^63 - 1).
MaxIntDigits ==
  <<"9","2","2","3","3","7","2","0","3","6","8","5","4","7","7","5","8","0","7">>

RECURSIVE DigitsLE(_, _)
DigitsLE(s, t) ==
  \/ s = <<>>
  \/ DigitVal(s[1]) < DigitVal(t[1])
  \/ DigitVal(s[1]) = DigitVal(t[1]) /\ DigitsLE(Tail(s), Tail(t))

\* strconv.Atoi succeeds on a non-empty run of digits within the int range.
AtoiOk(s) ==
  /\ Len(s) > 0
  /\ \A i \in 1..Len(s) : IsDigit(s[i])
  /\ LET z == StripZeros(s)
     IN  Len(z) < Len(MaxIntDigits)
           \/ (Len(z) = Len(MaxIntDigits) /\ DigitsLE(z, MaxIntDigits))

RECURSIVE AtoiVal(_, _)
AtoiVal(s, acc) ==
  IF s = <<>> THEN acc ELSE AtoiVal(Tail(s), acc * 10 + DigitVal(s[1]))

RECURSIVE Gcd(_, _)
Gcd(a, b) == IF b = 0 THEN a ELSE Gcd(b, a % b)

RECURSIVE Pow10(_)
Pow10(n) == IF n = 0 THEN 1 ELSE 10 * Pow10(n - 1)

DotAt(s) == {i \in 1..Len(s) : s[i] = "."}

WithoutDot(s) == SelectSeq(s, LAMBDA ch : ch # ".")

\* big.Rat.SetString on decimal text: digits with at most one '.'.
RatOk(s) ==
  /\ Cardinality(DotAt(s)) <= 1
  /\ Len(WithoutDot(s)) > 0
  /\ \A i \in 1..Len(s) : IsDigit(s[i]) \/ s[i] = "."

RatVal(s) ==
  LET num == AtoiVal(WithoutDot(s), 0)
      den == IF DotAt(s) = {} THEN 1
             ELSE Pow10(Len(s) - (CHOOSE i \in DotAt(s) : TRUE))
      g   == Gcd(num, den)
  IN  << num \div g, den \div g >>

\* y.integer(val, s): sets val.integer; log.Fatal when Atoi fails.
integer(val, s) ==
  IF AtoiOk(s)
  THEN [val |-> [val EXCEPT !.integer = AtoiVal(s, 0)], tok |-> INTEGER, fatal |-> FALSE]
  ELSE [val |-> val, tok |-> INTEGER, fatal |-> TRUE]

\* y.number(val, s): sets val.number; log.Fatal when SetString fails.
number(val, s) ==
  IF RatOk(s)
  THEN [val |-> [val EXCEPT !.number = <<RatVal(s)>>], tok |-> NUMBER, fatal |-> FALSE]
  ELSE [val |-> val, tok |-> NUMBER, fatal |-> TRUE]

\* y.identifier(val, s): sets val.identifier to the lexed bytes.
identifier(val, s) ==
  [val |-> [val EXCEPT !.identifier = s], tok |-> IDENTIFIER, fatal |-> FALSE]

\* y.Lex(lval): the next token of the source, 0 at the end of input.  It
\* moves the lexer's position to the token and converts a literal's text.
Lex(y, lval) ==
  IF y.pos > Len(y.src.toks)
  THEN [char |-> 0, y |-> y, lval |-> lval, fatal |-> FALSE]
  ELSE LET t  == y.src.toks[y.pos]
           y1 == [y EXCEPT !.pos = @ + 1, !.line = t.line,
                           !.colStart = t.col, !.colEnd = t.col + Len(t.s)]
           r  == CASE t.c = INTEGER    -> integer(lval, t.s)
                   [] t.c = NUMBER     -> number(lval, t.s)
                   [] t.c = IDENTIFIER -> identifier(lval, t.s)
                   [] OTHER -> [val |-> lval, tok |-> t.c, fatal |-> FALSE]
       IN  [char |-> r.tok, y |-> y1, lval |-> r.val, fatal |-> r.fatal]

\* yylex1: the lexer's code translated to the parser's token number.
yylex1(char) ==
  LET c == IF char <= 0 THEN Idx(yyTok1, 0)
           ELSE IF char < Len(yyTok1) THEN Idx(yyTok1, char)
           ELSE IF char >= yyPrivate /\ char < yyPrivate + Len(yyTok2)
                THEN Idx(yyTok2, char - yyPrivate)
           ELSE 0
  IN  IF c = 0 THEN Idx(yyTok2, 1) ELSE c

----------------------------------------------------------------------------
(* yyParse, lang.go:244-564.  The parser's locals are the record p; one    *)
(* Step runs from the label yynewstate to the next arrival there (a shift, *)
(* a reduction, a discarded token) or to a return.                         *)

\* yyS[i]: the stack is preallocated with zero values.
SAt(yyS, i) == IF i + 1 <= Len(yyS) THEN yyS[i + 1] ELSE ZeroSym

SPut(yyS, i, v) ==
  IF i + 1 <= Len(yyS) THEN [yyS EXCEPT ![i + 1] = v] ELSE Append(yyS, v)

\* The locals at the first arrival at yynewstate: state 0 is on the stack.
ParserInit ==
  [yyS |-> << ZeroSym >>, yyp |-> 0, yystate |-> 0, yychar |-> -1,
   yylval |-> ZeroSym, yyVAL |-> ZeroSym, Errflag |-> 0, Nerrs |-> 0]

\* The label yystack: yyp++, then yyS[yyp] = yyVAL with yys = yystate.
yystack(p, yyp, yystate, yyVAL) ==
  [p EXCEPT !.yyp = yyp + 1, !.yystate = yystate, !.yyVAL = yyVAL,
            !.yyS = SPut(p.yyS, yyp + 1, [yyVAL EXCEPT !.yys = yystate])]

\* yychar = yylex1(yylex, &yylval), on the parser's own lexer hp[me].
ReadToken(p, hp, me) ==
  LET r == Lex(hp[me], p.yylval)
  IN  [p    |-> [p EXCEPT !.yychar = yylex1(r.char), !.yylval = r.lval],
       heap |-> [hp EXCEPT ![me] = r.y],
       fatal |-> r.fatal]

RECURSIVE FindExca(_, _)
FindExca(xi, yystate) ==
  IF Idx(yyExca, xi) = -1 /\ Idx(yyExca, xi + 1) = yystate THEN xi
  ELSE FindExca(xi + 2, yystate)

RECURSIVE ScanExca(_, _)
ScanExca(xi, yychar) ==
  IF Idx(yyExca, xi) < 0 \/ Idx(yyExca, xi) = yychar THEN xi
  ELSE ScanExca(xi + 2, yychar)

\* The exception table's action for yystate on yychar.
ExcaAction(yystate, yychar) ==
  Idx(yyExca, ScanExca(FindExca(0, yystate) + 2, yychar) + 1)

\* The state a reduction to nonterminal nt goes to from the state below.
GotoState(nt, below) ==
  LET yyg == Idx(yyPgo, nt)
      yyj == yyg + below + 1
  IN  IF yyj >= yyLast THEN Idx(yyAct, yyg)
      ELSE IF Idx(yyChk, Idx(yyAct, yyj)) # -nt THEN Idx(yyAct, yyg)
      ELSE Idx(yyAct, yyj)

\* BinaryOp with the operators of productions 17 and 18 exchanged.
BinaryOpSwapped(yynt) ==
  CASE yynt = 17 -> "Gt"  [] yynt = 18 -> "Lt"  [] yynt = 19 -> "Le"
    [] yynt = 20 -> "Ge"  [] yynt = 21 -> "Ne"  [] yynt = 22 -> "Eq"
    [] yynt = 28 -> "Add" [] yynt = 29 -> "Sub" [] yynt = 30 -> "Mul"
    [] yynt = 31 -> "Div"

\* The node type of the binary productions 17-22 and 28-31.
BinaryOp(yynt) ==
  CASE yynt = 17 -> "Lt"  [] yynt = 18 -> "Gt"  [] yynt = 19 -> "Le"
    [] yynt = 20 -> "Ge"  [] yynt = 21 -> "Ne"  [] yynt = 22 -> "Eq"
    [] yynt = 28 -> "Add" [] yynt = 29 -> "Sub" [] yynt = 30 -> "Mul"
    [] yynt = 31 -> "Div"

\* The productions whose action calls d.d().
UsesDebug(yynt) == yynt \in {2, 9, 11, 12, 13, 14} \cup (17..22) \cup (24..31)

\* ActionNode with production 13 leaving the else branch out of the If node.
ActionNodeDropsElse(yynt, yyS, yypt, old, dbg) ==
  LET S(k) == SAt(yyS, yypt - k)
  IN  CASE yynt = 1  -> old
        [] yynt = 2  -> NewOperand(dbg, "Eos", <<>>)
        [] yynt = 3  -> S(1).node
        [] yynt \in 4..8 -> S(0).node
        [] yynt = 9  -> NewOperand(dbg, "Eos", <<S(1).node, S(0).node>>)
        [] yynt = 10 -> S(1).node
        [] yynt = 11 -> NewOperand(dbg, "Assign",
                          <<NewIdentifier(<<>>, S(3).identifier), S(1).node>>)
        [] yynt = 12 -> NewOperand(dbg, "While", <<S(1).node, S(0).node>>)
        [] yynt = 13 -> NewOperand(dbg, "If", <<S(2).node, S(1).node>>)
        [] yynt = 14 -> NewOperand(dbg, "Eos", <<>>)
        [] yynt \in {15, 16} -> S(0).node
        [] yynt \in 17..22 -> NewOperand(dbg, BinaryOp(yynt), <<S(2).node, S(0).node>>)
        [] yynt = 23 -> S(1).node
        [] yynt = 24 -> NewInteger(dbg, S(0).integer)
        [] yynt = 25 -> NewNumber(dbg, S(0).number)
        [] yynt = 26 -> NewIdentifier(dbg, S(0).identifier)
        [] yynt = 27 -> NewOperand(dbg, "Uminus", <<S(0).node>>)
        [] yynt \in 28..31 -> NewOperand(dbg, BinaryOp(yynt), <<S(2).node, S(0).node>>)
        [] yynt = 32 -> S(1).node

\* ActionNode with production 9 joining the new statement before the list.
ActionNodeJoinsInFront(yynt, yyS, yypt, old, dbg) ==
  LET S(k) == SAt(yyS, yypt - k)
  IN  CASE yynt = 1  -> old
        [] yynt = 2  -> NewOperand(dbg, "Eos", <<>>)
        [] yynt = 3  -> S(1).node
        [] yynt \in 4..8 -> S(0).node
        [] yynt = 9  -> NewOperand(dbg, "Eos", <<S(0).node, S(1).node>>)
        [] yynt = 10 -> S(1).node
        [] yynt = 11 -> NewOperand(dbg, "Assign",
                          <<NewIdentifier(<<>>, S(3).identifier), S(1).node>>)
        [] yynt = 12 -> NewOperand(dbg, "While", <<S(1).node, S(0).node>>)
        [] yynt = 13 -> NewOperand(dbg, "If", <<S(2).node, S(1).node, S(0).node>>)
        [] yynt = 14 -> NewOperand(dbg, "Eos", <<>>)
        [] yynt \in {15, 16} -> S(0).node
        [] yynt \in 17..22 -> NewOperand(dbg, BinaryOp(yynt), <<S(2).node, S(0).node>>)
        [] yynt = 23 -> S(1).node
        [] yynt = 24 -> NewInteger(dbg, S(0).integer)
        [] yynt = 25 -> NewNumber(dbg, S(0).number)
        [] yynt = 26 -> NewIdentifier(dbg, S(0).identifier)
        [] yynt = 27 -> NewOperand(dbg, "Uminus", <<S(0).node>>)
        [] yynt \in 28..31 -> NewOperand(dbg, BinaryOp(yynt), <<S(2).node, S(0).node>>)
        [] yynt = 32 -> S(1).node

\* The switch on yynt: the value the action leaves in yyVAL.node.  dbg is
\* d.d(), and S(k) is yyS[yypt-k].
ActionNode(yynt, yyS, yypt, old, dbg) ==
  LET S(k) == SAt(yyS, yypt - k)
  IN  CASE yynt = 1  -> old
        [] yynt = 2  -> NewOperand(dbg, "Eos", <<>>)
        [] yynt = 3  -> S(1).node
        [] yynt \in 4..8 -> S(0).node
        [] yynt = 9  -> NewOperand(dbg, "Eos", <<S(1).node, S(0).node>>)
        [] yynt = 10 -> S(1).node
        [] yynt = 11 -> NewOperand(dbg, "Assign",
                          <<NewIdentifier(<<>>, S(3).identifier), S(1).node>>)
        [] yynt = 12 -> NewOperand(dbg, "While", <<S(1).node, S(0).node>>)
        [] yynt = 13 -> NewOperand(dbg, "If", <<S(2).node, S(1).node, S(0).node>>)
        [] yynt = 14 -> NewOperand(dbg, "Eos", <<>>)
        [] yynt \in {15, 16} -> S(0).node
        [] yynt \in 17..22 -> NewOperand(dbg, BinaryOp(yynt), <<S(2).node, S(0).node>>)
        [] yynt = 23 -> S(1).node
        [] yynt = 24 -> NewInteger(dbg, S(0).integer)
        [] yynt = 25 -> NewNumber(dbg, S(0).number)
        [] yynt = 26 -> NewIdentifier(dbg, S(0).identifier)
        [] yynt = 27 -> NewOperand(dbg, "Uminus", <<S(0).node>>)
        [] yynt \in 28..31 -> NewOperand(dbg, BinaryOp(yynt), <<S(2).node, S(0).node>>)
        [] yynt = 32 -> S(1).node

\* The lexer the actions reach through the package-level pointer: production
\* 1 stores the tree in it.
StoreTree(hp, dp, yynt, yyS, yypt) ==
  IF yynt = 1 THEN [hp EXCEPT ![dp].tree = SAt(yyS, yypt).node] ELSE hp

\* Reduction by production yyn, then the push of the new state.
Reduce(p, hp, dp, yyn) ==
  LET yypt == p.yyp
      yyp1 == p.yyp - Idx(yyR2, yyn)
      val  == SAt(p.yyS, yyp1 + 1)
      next == GotoState(Idx(yyR1, yyn), SAt(p.yyS, yyp1).yys)
  IN  IF UsesDebug(yyn) /\ DebugPanics(hp[dp])
      THEN [p |-> p, heap |-> hp, status |-> "panic"]
      ELSE [p |-> yystack(p, yyp1, next,
                    [val EXCEPT !.node =
                       ActionNode(yyn, p.yyS, yypt, val.node,
                                  IF UsesDebug(yyn) THEN DebugInfo(hp[dp]) ELSE <<>>)]),
            heap |-> StoreTree(hp, dp, yyn, p.yyS, yypt),
            status |-> "run"]

\* A valid shift of the lookahead into state yyn.
Shift(p, yyn) ==
  yystack([p EXCEPT !.yychar = -1,
                    !.Errflag = IF p.Errflag > 0 THEN p.Errflag - 1 ELSE 0],
          p.yyp, yyn, p.yylval)

\* The loop that pops the stack down to a state that shifts "error":
\* the stack index found, or -1 when there is none.
RECURSIVE ErrorShiftAt(_, _)
ErrorShiftAt(yyS, yyp) ==
  IF yyp < 0 THEN -1
  ELSE IF /\ Idx(yyPact, SAt(yyS, yyp).yys) + yyErrCode >= 0
          /\ Idx(yyPact, SAt(yyS, yyp).yys) + yyErrCode < yyLast
          /\ Idx(yyChk, Idx(yyAct, Idx(yyPact, SAt(yyS, yyp).yys) + yyErrCode)) = yyErrCode
       THEN yyp
       ELSE ErrorShiftAt(yyS, yyp - 1)

\* The state that shifts "error" from the state at stack index at.
ErrorShiftState(yyS, at) ==
  Idx(yyAct, Idx(yyPact, SAt(yyS, at).yys) + yyErrCode)

\* Recover going back to yynewstate when no state shifts "error".
RecoverRetries(p, hp, at) ==
  IF at < 0
  THEN [p |-> [p EXCEPT !.Nerrs = 0], heap |-> hp, status |-> "run"]
  ELSE [p |-> yystack([p EXCEPT !.Errflag = 3], at, ErrorShiftState(p.yyS, at), p.yyVAL),
        heap |-> hp, status |-> "run"]

\* case 0, 1, 2 of the error switch, once the stack has been searched
\* down to index at: Errflag = 3, then the error shift or the abort.
Recover(p, hp, at) ==
  IF at < 0
  THEN [p |-> [p EXCEPT !.Errflag = 3, !.yyp = -1], heap |-> hp, status |-> "ret1"]
  ELSE [p |-> yystack([p EXCEPT !.Errflag = 3], at, ErrorShiftState(p.yyS, at), p.yyVAL),
        heap |-> hp, status |-> "run"]

\* SyntaxError without the call of yylex.Error.
SyntaxErrorUnreported(p, hp, me) ==
  IF p.Errflag = 3
  THEN IF p.yychar = yyEofCode
       THEN [p |-> p, heap |-> hp, status |-> "ret1"]
       ELSE [p |-> [p EXCEPT !.yychar = -1], heap |-> hp, status |-> "run"]
  ELSE IF p.Errflag = 0
  THEN Recover([p EXCEPT !.Nerrs = p.Nerrs + 1], hp, ErrorShiftAt(p.yyS, p.yyp))
  ELSE Recover(p, hp, ErrorShiftAt(p.yyS, p.yyp))

\* yyn == 0: error, attempt to resume parsing.
SyntaxError(p, hp, me) ==
  IF p.Errflag = 3
  THEN IF p.yychar = yyEofCode
       THEN [p |-> p, heap |-> hp, status |-> "ret1"]
       ELSE [p |-> [p EXCEPT !.yychar = -1], heap |-> hp, status |-> "run"]
  ELSE IF p.Errflag = 0
  THEN Recover([p EXCEPT !.Nerrs = p.Nerrs + 1],
               [hp EXCEPT ![me] = Error(hp[me], "syntax error")],
               ErrorShiftAt(p.yyS, p.yyp))
  ELSE Recover(p, hp, ErrorShiftAt(p.yyS, p.yyp))

\* A pass reads a token when none is held and the state looks at one: at
\* yynewstate when yyPact is not the flag, at yydefault when yyDef is -2.
NeedsToken(p) ==
  /\ p.yychar < 0
  /\ Idx(yyPact, p.yystate) > yyFlag \/ Idx(yyDef, p.yystate) = -2

\* The pass up to the point where the lookahead, if needed, is in yychar.
Fetch(p, hp, me) ==
  IF NeedsToken(p) THEN ReadToken(p, hp, me)
  ELSE [p |-> p, heap |-> hp, fatal |-> FALSE]

\* The test for a valid shift at yynewstate.
CanShift(p) ==
  /\ Idx(yyPact, p.yystate) > yyFlag
  /\ Idx(yyPact, p.yystate) + p.yychar >= 0
  /\ Idx(yyPact, p.yystate) + p.yychar < yyLast
  /\ Idx(yyChk, Idx(yyAct, Idx(yyPact, p.yystate) + p.yychar)) = p.yychar

\* The default action of the state: a production, 0 for an error, and a
\* negative number to accept.
DefaultAction(p) ==
  IF Idx(yyDef, p.yystate) = -2 THEN ExcaAction(p.yystate, p.yychar)
  ELSE Idx(yyDef, p.yystate)

\* The pass from the point where the lookahead is in yychar.
Act(p, hp, me, dp) ==
  IF CanShift(p)
  THEN [p |-> Shift(p, Idx(yyAct, Idx(yyPact, p.yystate) + p.yychar)),
        heap |-> hp, status |-> "run"]
  ELSE IF DefaultAction(p) < 0 THEN [p |-> p, heap |-> hp, status |-> "ret0"]
  ELSE IF DefaultAction(p) = 0 THEN SyntaxError(p, hp, me)
  ELSE Reduce(p, hp, dp, DefaultAction(p))

\* One pass from yynewstate.  me is the lexer passed to yyParse, dp the
\* value of the package-level pointer d.  (The fetched token is bound
\* through a one-element set, which evaluates it once.)
Step(p, hp, me, dp) ==
  CHOOSE r \in { IF a.fatal THEN [p |-> a.p, heap |-> a.heap, status |-> "fatal"]
                 ELSE Act(a.p, a.heap, me, dp) : a \in { Fetch(p, hp, me) } } : TRUE

\* yyParse run to its return with the lexer alone in the process (d is the
\* parser's own lexer): the final step's result.
RECURSIVE RunAlone(_, _)
RunAlone(p, hp) ==
  LET r == Step(p, hp, 1, 1)
  IN  IF r.status = "run" THEN RunAlone(r.p, r.heap) ELSE r

----------------------------------------------------------------------------
(* The driver, myrmidon.go:17-73, called from several goroutines.          *)

Threads == {"t1", "t2"}

Instances == {"A", "B"}

MaxCalls == 2

NoThread == ""

Idle == [pc |-> "idle", inst |-> "A", src |-> <<>>, lx |-> 0, lines |-> <<>>,
         p |-> <<>>, ret |-> <<>>, pre |-> <<>>, overlap |-> FALSE]

\* New(): the zero Myrmidon.
New == [lexer |-> 0, src |-> <<>>, mtx |-> NoThread]

\* What AST() on instance i reads, m.lexer.tree: nothing when m.lexer is
\* nil.  StoredIn reads it in the given values of m and heap.
StoredIn(mm, hp, i) == IF mm[i].lexer = 0 THEN <<>> ELSE << hp[mm[i].lexer].tree >>

Stored(i) == StoredIn(m, heap, i)

Init ==
  /\ heap = <<>>
  /\ d = 0
  /\ m = [i \in Instances |-> New]
  /\ th = [t \in Threads |-> Idle]
  /\ calls = 0
  /\ crashed = FALSE
  /\ succeeded = {}

\* A goroutine calls m.Compile(src) and reaches m.mtx.Lock().
CompileCall(t, i, s) ==
  /\ ~crashed
  /\ th[t].pc = "idle"
  /\ th' = [th EXCEPT ![t] = [Idle EXCEPT !.pc = "Compile", !.inst = i, !.src = <<s>>]]
  /\ calls' = calls + 1
  /\ UNCHANGED <<heap, d, m, crashed, succeeded>>

\* A Lock that never waits.
LockFree(i) == TRUE

\* m.mtx.Lock() returns only when no goroutine holds the mutex of i.
Lock(i) == m[i].mtx = NoThread

\* Lines 36-49: the lock is taken, m.src set, the source split into lines
\* (an error returns at once, the deferred Unlock runs), and newLexer
\* allocates the lexer and points d at it.
CompileEnter(t) ==
  LET i  == th[t].inst
      s  == th[t].src[1]
      lg == LineGenerator(s)
  IN  /\ ~crashed
      /\ th[t].pc = "Compile"
      /\ Lock(i)
      /\ IF lg.err # <<>>
         THEN /\ m' = [m EXCEPT ![i].src = <<s>>]
              /\ th' = [th EXCEPT ![t].pc = "idle", ![t].pre = Stored(i),
                           ![t].ret = << [op |-> "Compile", err |-> lg.err, tree |-> <<>>,
                                          hadSuccess |-> i \in succeeded] >>]
              /\ UNCHANGED <<heap, d>>
         ELSE /\ m' = [m EXCEPT ![i].src = <<s>>, ![i].mtx = t]
              /\ heap' = Append(heap, newLexer(s))
              /\ d' = Len(heap) + 1
              /\ th' = [th EXCEPT ![t].pc = "newLexer", ![t].lx = Len(heap) + 1,
                                  ![t].lines = lg.lines, ![t].pre = Stored(i)]
      /\ UNCHANGED <<calls, crashed, succeeded>>

\* Lines 49-51: m.lexer = (the new lexer); m.lexer.lines = lines; yyParse
\* starts.
CompileSetLexer(t) ==
  LET i == th[t].inst
  IN  /\ ~crashed
      /\ th[t].pc = "newLexer"
      /\ m' = [m EXCEPT ![i].lexer = th[t].lx]
      /\ heap' = [heap EXCEPT ![th[t].lx].lines = th[t].lines]
      /\ th' = [th EXCEPT ![t].pc = "yyParse", ![t].p = <<ParserInit>>,
                          ![t].lines = <<>>]
      /\ UNCHANGED <<d, calls, crashed, succeeded>>

\* The result of the next pass of t's parser: yylex is m.lexer, and the
\* actions go through d.
Pass(t) == Step(th[t].p[1], heap, m[th[t].inst].lexer, d)

\* A shift, a reduction or a discarded token; the parse goes on.
ParseStep(t) ==
  /\ ~crashed
  /\ th[t].pc = "yyParse"
  /\ \E r \in { Pass(t) } :
       /\ r.status = "run"
       /\ heap' = r.heap
       /\ th' = [th EXCEPT ![t].p = << r.p >>]
  /\ UNCHANGED <<d, m, calls, crashed, succeeded>>

\* yyParse returns 0 (lines 52-60): the stored tree is wrapped in a Program
\* node, Compile returns nil and the lock is released.
CompileAccept(t) ==
  /\ ~crashed
  /\ th[t].pc = "yyParse"
  /\ \E r \in { Pass(t) }, i \in { th[t].inst } :
       /\ r.status = "ret0"
       /\ heap' = [r.heap EXCEPT ![m[i].lexer].tree =
                     NewOperand(<<>>, "Program", << r.heap[m[i].lexer].tree >>)]
       /\ m' = [m EXCEPT ![i].mtx = NoThread]
       /\ th' = [th EXCEPT ![t].pc = "idle", ![t].p = <<>>,
                   ![t].ret = << [op |-> "Compile", err |-> <<>>, tree |-> <<>>,
                                  hadSuccess |-> i \in succeeded] >>]
       /\ succeeded' = succeeded \cup {i}
  /\ UNCHANGED <<d, calls, crashed>>

\* yyParse returns 1 (line 62): Compile returns m.lexer.lastError.
CompileReject(t) ==
  /\ ~crashed
  /\ th[t].pc = "yyParse"
  /\ \E r \in { Pass(t) }, i \in { th[t].inst } :
       /\ r.status = "ret1"
       /\ heap' = r.heap
       /\ m' = [m EXCEPT ![i].mtx = NoThread]
       /\ th' = [th EXCEPT ![t].pc = "idle", ![t].p = <<>>,
                   ![t].ret = << [op |-> "Compile", err |-> r.heap[m[i].lexer].lastError,
                                  tree |-> <<>>, hadSuccess |-> i \in succeeded] >>]
  /\ UNCHANGED <<d, calls, crashed, succeeded>>

\* d.d() indexes lines out of range: the goroutine panics, the process dies.
ParsePanic(t) ==
  /\ ~crashed
  /\ th[t].pc = "yyParse"
  /\ \E r \in { Pass(t) } : r.status = "panic"
  /\ crashed' = TRUE
  /\ th' = [th EXCEPT ![t].pc = "index-panic"]
  /\ UNCHANGED <<heap, d, m, calls, succeeded>>

\* integer() or number() calls log.Fatal: the process exits.
LexFatal(t) ==
  /\ ~crashed
  /\ th[t].pc = "yyParse"
  /\ \E r \in { Pass(t) } : r.status = "fatal"
  /\ crashed' = TRUE
  /\ th' = [th EXCEPT ![t].pc = "fatal"]
  /\ UNCHANGED <<heap, d, m, calls, succeeded>>

\* A goroutine calls m.AST() and reaches m.mtx.Lock().
ASTCall(t, i) ==
  /\ ~crashed
  /\ th[t].pc = "idle"
  /\ th' = [th EXCEPT ![t] = [Idle EXCEPT !.pc = "AST", !.inst = i,
                                            !.overlap = (m[i].mtx # NoThread)]]
  /\ calls' = calls + 1
  /\ UNCHANGED <<heap, d, m, crashed, succeeded>>

\* Lines 68-72 with a lexer: m.lexer.tree and a nil error are returned.
ASTReturn(t) ==
  LET i == th[t].inst
  IN  /\ ~crashed
      /\ th[t].pc = "AST"
      /\ Lock(i)
      /\ m[i].lexer # 0
      /\ th' = [th EXCEPT ![t].pc = "idle", ![t].pre = Stored(i),
                  ![t].ret = << [op |-> "AST", err |-> <<>>, tree |-> Stored(i),
                                 hadSuccess |-> i \in succeeded] >>]
      /\ UNCHANGED <<heap, d, m, calls, crashed, succeeded>>

\* Lines 68-72 before any lexer exists: m.lexer is nil, and m.lexer.tree
\* is a nil pointer dereference.
ASTNilPanic(t) ==
  LET i == th[t].inst
  IN  /\ ~crashed
      /\ th[t].pc = "AST"
      /\ Lock(i)
      /\ m[i].lexer = 0
      /\ crashed' = TRUE
      /\ th' = [th EXCEPT ![t].pc = "nil-panic"]
      /\ UNCHANGED <<heap, d, m, calls, succeeded>>

----------------------------------------------------------------------------
(* Source texts used as inputs.  A text is written as its lexemes; NL is a *)
(* line break.                                                             *)

NL == [c |-> 0, s |-> <<>>]
Id(name) == [c |-> IDENTIFIER, s |-> <<name>>]
IntLit(digits) == [c |-> INTEGER, s |-> digits]
NumLit(text) == [c |-> NUMBER, s |-> text]
Kw(c, text) == [c |-> c, s |-> <<text>>]

RECURSIVE Place(_, _, _)
Place(ls, line, col) ==
  IF ls = <<>> THEN <<>>
  ELSE IF Head(ls).c = 0 THEN Place(Tail(ls), line + 1, 0)
  ELSE << Tk(Head(ls).c, Head(ls).s, line, col) >>
         \o Place(Tail(ls), line, col + Len(Head(ls).s))

Text(ls) ==
  [toks |-> Place(ls, 1, 0),
   nlines |-> 1 + Cardinality({k \in 1..Len(ls) : ls[k].c = 0}),
   linesErr |-> FALSE]

Semi == Kw(SEMI, ";")

\* "a;"
SrcA == Text(<< Id("a"), Semi >>)
\* a blank line, then "7;"
SrcB == Text(<< NL, IntLit(<<"7">>), Semi >>)
\* "a;)": a statement, then a token no statement starts with
SrcTail == Text(<< Id("a"), Semi, Kw(RPAREN, ")") >>)
\* ")"
SrcBad == Text(<< Kw(RPAREN, ")") >>)
\* a text that cannot be split into lines
SrcLong == [Text(<< Id("a"), Semi >>) EXCEPT !.linesErr = TRUE]

Sources == {SrcA, SrcB, SrcTail, SrcBad, SrcLong}

Next ==
  \E t \in Threads :
    \/ \E i \in Instances, s \in Sources : calls < MaxCalls /\ CompileCall(t, i, s)
    \/ CompileEnter(t)
    \/ CompileSetLexer(t)
    \/ ParseStep(t)
    \/ CompileAccept(t)
    \/ CompileReject(t)
    \/ ParsePanic(t)
    \/ \E i \in Instances : calls < MaxCalls /\ ASTCall(t, i)
    \/ ASTReturn(t)
    \/ ASTNilPanic(t)

\* Goroutines t1 and t2 calling Compile and AST on the instances A and B.
Spec == Init /\ [][Next]_vars

----------------------------------------------------------------------------
(* One Compile of one text on one instance, for the properties of the      *)
(* parser itself.                                                          *)

Leaves == { Id("a"), IntLit(<<"2">>), NumLit(<<"3", ".", "5">>) }

AddOps == { Kw(PLUS, "+"), Kw(MINUS, "-") }

MulOps == { Kw(STAR, "*"), Kw(SLASH, "/") }

BinOps == AddOps \cup MulOps

Minus == Kw(MINUS, "-")

\* An expression statement: the lexemes, then ';'.
ExprStmt(ls) == Text(ls \o << Semi >>)

BinarySources ==
  { ExprStmt(<<a, o1, b, o2, c>>) : a \in Leaves, b \in Leaves, c \in Leaves,
                                    o1 \in BinOps, o2 \in BinOps }

UnarySources ==
  { ExprStmt(<<Minus, a, o, b>>) : a \in Leaves, b \in Leaves, o \in BinOps }

\* The largest number of empty statements in a text.
MaxEmpty == 3

RECURSIVE Repeat(_, _)
Repeat(l, n) == IF n = 0 THEN <<>> ELSE << l >> \o Repeat(l, n - 1)

\* n bare statement terminators.
EmptyStmts(n) == Text(Repeat(Semi, n))

EmptySources == { EmptyStmts(n) : n \in 0..MaxEmpty }

LBrace == Kw(LBRACE, "{")
RBrace == Kw(RBRACE, "}")

\* "x = x+1" and "x = 1", "x = 2", without a terminator.
AssignInc == << Id("x"), Kw(ASSIGN, "="), Id("x"), Kw(PLUS, "+"), IntLit(<<"1">>) >>
AssignTo(n) == << Id("x"), Kw(ASSIGN, "="), IntLit(<<n>>) >>

WhileHead == << Kw(WHILE, "while"), Id("a"), Kw(LT, "<"), IntLit(<<"1", "0">>) >>
IfHead == << Kw(IF_, "if"), Id("a"), Kw(EQ, "=="), IntLit(<<"1">>) >>
Else == << Kw(ELSE_, "else") >>

\* The ways a text can end an assignment: nothing, ';', or a line break
\* that the lexer reports as EOL.
Terminators == { <<>>, << Semi >>, << Kw(EOL, "\n") >> }

\* while a<10 x=x+1 and if a==1 x=1 else x=2, the bodies not in a block.
WhileBare(term) == Text(WhileHead \o AssignInc \o term)
IfBare(term) == Text(IfHead \o AssignTo("1") \o term \o Else \o AssignTo("2") \o term)

\* The same with each body in a block: while a<10 {x=x+1;} and
\* if a==1 {x=1;} else {x=2;}.
Block(ls) == << LBrace >> \o ls \o << Semi, RBrace >>
WhileBlock == Text(WhileHead \o Block(AssignInc))
IfBlock == Text(IfHead \o Block(AssignTo("1")) \o Else \o Block(AssignTo("2")))

StatementSources ==
  { WhileBare(term) : term \in Terminators } \cup { IfBare(term) : term \in Terminators }
    \cup { WhileBlock, IfBlock }

\* An integer literal one above the largest int.
SrcOverflow ==
  Text(<< IntLit(<<"9","2","2","3","3","7","2","0","3","6","8","5","4","7","7","5","8","0","8">>),
          Semi >>)

\* Texts with an unexpected token: at is the index of the token the lexer
\* has delivered last when the parser finds no action, which is the
\* unexpected token, or the final token when the text ends too early.
\* "a;" then ")" on the next line
SrcTailBelow == Text(<< Id("a"), Semi, NL, Kw(RPAREN, ")") >>)
\* "a+": the text ends inside an expression
SrcCut == Text(<< Id("a"), Kw(PLUS, "+") >>)
\* "a;" then "2 3;" on the next line
SrcTwoOperands == Text(<< Id("a"), Semi, NL, IntLit(<<"2">>), IntLit(<<"3">>), Semi >>)

ErrorSources ==
  { [text |-> SrcTail, at |-> 3], [text |-> SrcBad, at |-> 1],
    [text |-> SrcTailBelow, at |-> 3], [text |-> SrcCut, at |-> 2],
    [text |-> SrcTwoOperands, at |-> 4] }
    \cup { [text |-> WhileBare(term), at |-> 5] : term \in Terminators }
    \cup { [text |-> IfBare(term), at |-> 5] : term \in Terminators }

\* Programs of 1..MaxStmts statements, each one of SimpleStmts: "a;",
\* "x=1;" and "while a<10 {x=x+1;}".
MaxStmts == 3

SimpleStmts ==
  { << Id("a"), Semi >>, AssignTo("1") \o << Semi >>, WhileHead \o Block(AssignInc) }

\* The lexemes of the statements f[1], ..., f[n] one after the other.
RECURSIVE Concat(_, _)
Concat(f, n) == IF n = 0 THEN <<>> ELSE Concat(f, n - 1) \o f[n]

StmtLists == UNION { [1..n -> SimpleStmts] : n \in 1..MaxStmts }

ProgramSources == { Text(Concat(f, Len(f))) : f \in StmtLists }

\* if statements: without else, with an else block holding only an empty
\* statement, and with else if.
IfNoElse == Text(IfHead \o Block(AssignTo("1")))
IfElseEmpty == Text(IfHead \o Block(AssignTo("1")) \o Else \o << LBrace, Semi, RBrace >>)
IfElseIf == Text(IfHead \o Block(AssignTo("1")) \o Else \o IfHead \o Block(AssignTo("2")))

IfSources ==
  { [text |-> IfNoElse, hasElse |-> FALSE], [text |-> IfBlock, hasElse |-> TRUE],
    [text |-> IfElseEmpty, hasElse |-> TRUE], [text |-> IfElseIf, hasElse |-> TRUE] }

\* Single statements with the line of their leading token: on one line,
\* spanning two lines, and with the terminator on the next line.
\* a blank line, then "2+3;"
SrcSecondLine == Text(<< NL, IntLit(<<"2">>), Kw(PLUS, "+"), IntLit(<<"3">>), Semi >>)
\* "2+" then "3;" on the next line
SrcSpans == Text(<< IntLit(<<"2">>), Kw(PLUS, "+"), NL, IntLit(<<"3">>), Semi >>)
\* "2+3" then ";" on the next line
SrcLateEnd == Text(<< IntLit(<<"2">>), Kw(PLUS, "+"), IntLit(<<"3">>), NL, Semi >>)

LineSources ==
  { [text |-> SrcSecondLine, line |-> 2], [text |-> SrcSpans, line |-> 1],
    [text |-> SrcLateEnd, line |-> 1] }

ParseSources ==
  BinarySources \cup UnarySources \cup EmptySources \cup StatementSources
    \cup { SrcOverflow } \cup { e.text : e \in ErrorSources } \cup ProgramSources
    \cup { e.text : e \in IfSources } \cup { e.text : e \in LineSources }

NextParse ==
  \/ \E s \in ParseSources : calls = 0 /\ CompileCall("t1", "A", s)
  \/ CompileEnter("t1")
  \/ CompileSetLexer("t1")
  \/ ParseStep("t1")
  \/ CompileAccept("t1")
  \/ CompileReject("t1")
  \/ LexFatal("t1")

\* One goroutine compiling one text of ParseSources on instance A.
SpecParse == Init /\ [][NextParse]_vars

\* Texts for the runs to completion: every kind of statement, accepted and
\* rejected, and the literal that cannot be converted.
RunSources ==
  UnarySources \cup EmptySources \cup StatementSources \cup { SrcOverflow }
    \cup { e.text : e \in ErrorSources } \cup { e.text : e \in IfSources }
    \cup { e.text : e \in LineSources }

\* The steps of a call that has started.
RunParse ==
  \/ CompileEnter("t1")
  \/ CompileSetLexer("t1")
  \/ ParseStep("t1")
  \/ CompileAccept("t1")
  \/ CompileReject("t1")
  \/ LexFatal("t1")

NextRun ==
  \/ \E s \in RunSources : calls = 0 /\ CompileCall("t1", "A", s)
  \/ RunParse

\* One goroutine compiling one text of RunSources on instance A, scheduled
\* for as long as its call can take a step.
SpecParseLive == Init /\ [][NextRun]_vars /\ WF_vars(RunParse)

----------------------------------------------------------------------------
(* Definitions the properties are stated with.                             *)

\* A node without its debug information, for comparing tree shapes.
RECURSIVE Shape(_)
Shape(n) ==
  [n EXCEPT !.d = <<>>,
            !.nodes = IF n.nodes = <<>> THEN <<>>
                      ELSE [k \in 1..Len(n.nodes) |-> Shape(n.nodes[k])]]

Program(n) == NewOperand(<<>>, "Program", << n >>)
Op1(op, x) == NewOperand(<<>>, op, << x >>)
Op2(op, x, y) == NewOperand(<<>>, op, << x, y >>)
Op3(op, x, y, z) == NewOperand(<<>>, op, << x, y, z >>)

\* The leaf of an operand lexeme.
LeafOf(l) ==
  CASE l.c = IDENTIFIER -> NewIdentifier(<<>>, l.s)
    [] l.c = INTEGER    -> NewInteger(<<>>, AtoiVal(l.s, 0))
    [] l.c = NUMBER     -> NewNumber(<<>>, << RatVal(l.s) >>)

OpOf(o) ==
  CASE o.c = PLUS -> "Add" [] o.c = MINUS -> "Sub"
    [] o.c = STAR -> "Mul" [] o.c = SLASH -> "Div"

\* Goroutine t is between its Compile's Lock and its return on instance i.
InCompile(t, i) == th[t].inst = i /\ th[t].pc \in {"newLexer", "yyParse"}

\* Goroutine t has returned from a call and not started another.
Returned(t, op) ==
  th[t].pc = "idle" /\ th[t].ret # <<>> /\ th[t].ret[1].op = op

\* In a step, t's Compile returns from yyParse (or dies in it).
LeavesParse(t) == th[t].pc = "yyParse" /\ th'[t].pc # "yyParse"

\* In a step, t's Compile returns an error.
FailedReturn(t) ==
  /\ th[t].pc \in {"Compile", "yyParse"}
  /\ th'[t].pc = "idle"
  /\ th'[t].ret[1].err # <<>>

\* What a caller can retrieve: no result when there is no lexer or the
\* stored tree is the zero node.
Result(x) == IF x = <<>> THEN <<>> ELSE IF x[1].kind = "nil" THEN <<>> ELSE x

\* Compile(s) on a fresh instance with nothing else running: the stored
\* tree and the returned error.
Alone(s) ==
  LET r == RunAlone(ParserInit,
                    << [newLexer(s) EXCEPT !.lines = LineGenerator(s).lines] >>)
  IN  [tree |-> IF r.status = "ret0" THEN Program(r.heap[1].tree) ELSE r.heap[1].tree,
       err  |-> IF r.status = "ret0" THEN <<>> ELSE r.heap[1].lastError,
       status |-> r.status]

\* A Program node with one child that is a tree and not again a Program.
WrappedOnce(n) ==
  /\ n.kind = "operand" /\ n.op = "Program"
  /\ Len(n.nodes) = 1
  /\ n.nodes[1].kind # "nil"
  /\ n.nodes[1].op # "Program"

\* In the single Compile of SpecParse: the call has returned, its text was s.
Compiled(s) == Returned("t1", "Compile") /\ th["t1"].src = << s >>

\* ... it returned nil, and the stored tree has the shape of n.
Yields(n) ==
  /\ th["t1"].ret[1].err = <<>>
  /\ Stored("A") # <<>>
  /\ Shape(Stored("A")[1]) = n

\* ... it returned a syntax error, and no tree was stored.
Rejected ==
  /\ th["t1"].ret[1].err # <<>>
  /\ th["t1"].ret[1].err[1].msg = "syntax error"
  /\ Stored("A") = << ZeroNode >>

EosSentinel(n) == n.kind = "operand" /\ n.op = "Eos" /\ n.nodes = <<>>

\* An Eos sentinel, or Eos nodes joining k sentinels.
RECURSIVE EosChain(_, _)
EosChain(n, k) ==
  IF k = 1 THEN EosSentinel(n)
  ELSE /\ n.kind = "operand" /\ n.op = "Eos" /\ Len(n.nodes) = 2
       /\ EosChain(n.nodes[1], k - 1)
       /\ EosSentinel(n.nodes[2])

----------------------------------------------------------------------------
(* C1.  Two Compile calls on one instance never interleave: at most one    *)
(* goroutine is between Compile's Lock and its return on an instance, it   *)
(* is the holder of the instance's mutex, and the lexer the instance       *)
(* holds while a parse runs is the one that call created.                  *)

C1_CompileCallsNeverInterleave ==
  \A i \in Instances : \A t \in Threads :
    InCompile(t, i) =>
      /\ m[i].mtx = t
      /\ \A u \in Threads : InCompile(u, i) => u = t
      /\ th[t].pc = "yyParse" => m[i].lexer = th[t].lx

\* A second Compile on A waits at the lock while the first is parsing.
C1_Witness ==
  \E t \in Threads, u \in Threads :
    /\ t # u
    /\ InCompile(t, "A") /\ th[t].pc = "yyParse"
    /\ th[u].pc = "Compile" /\ th[u].inst = "A"

(* C2.  A Compile that returns an error leaves what AST() retrieves as it  *)
(* was before the call.                                                    *)

C2_FailedCompileKeepsTree ==
  [][\A t \in Threads :
       FailedReturn(t) =>
         Result(StoredIn(m', heap', th[t].inst)) = Result(th'[t].pre)]_vars

(* C3.  Before any Compile on the instance has succeeded, AST() returns an *)
(* error and no tree (and does not bring the process down).                *)

C3_ASTFailsBeforeFirstSuccess ==
  \A t \in Threads :
    /\ th[t].pc # "nil-panic"
    /\ (Returned(t, "AST") /\ ~th[t].ret[1].hadSuccess)
         => (th[t].ret[1].err # <<>> /\ th[t].ret[1].tree = <<>>)

(* C4.  An AST() called while a Compile is in flight on the same instance  *)
(* returns only complete, Program-wrapped trees.                           *)

C4_ASTDuringCompileSeesWholeTrees ==
  \A t \in Threads :
    (Returned(t, "AST") /\ th[t].overlap /\ Result(th[t].ret[1].tree) # <<>>)
      => th[t].ret[1].tree[1].op = "Program"

(* C5.  Instances are independent: whenever a Compile leaves yyParse, it   *)
(* returns, and its instance holds the tree and the call returns the error *)
(* that the same Compile produces when it runs alone.                      *)

C5_InstancesAreIndependent ==
  [][\A t \in Threads :
       LeavesParse(t) =>
         /\ th'[t].pc = "idle"
         /\ StoredIn(m', heap', th[t].inst) = << Alone(th[t].src[1]).tree >>
         /\ th'[t].ret[1].err = Alone(th[t].src[1]).err]_vars

(* C6.  Once a Compile on an instance has succeeded, the tree the instance *)
(* holds (whenever no call is inside it) is a Program node with exactly    *)
(* one child, the statement tree, which is not a Program node.             *)

C6_StoredTreeWrappedOnce ==
  \A i \in succeeded :
    m[i].mtx = NoThread => (Stored(i) # <<>> /\ WrappedOnce(Stored(i)[1]))

(* C7.  Multiplicative operators bind tighter than additive ones:          *)
(* a p b m c parses to p(a, m(b, c)) and a m b p c to p(m(a, b), c).       *)

C7_MultiplicativeBindsTighter ==
  Returned("t1", "Compile") =>
    \A a \in Leaves, b \in Leaves, c \in Leaves, p \in AddOps, mo \in MulOps :
      /\ Compiled(ExprStmt(<<a, p, b, mo, c>>)) =>
           Yields(Program(Op2(OpOf(p), LeafOf(a), Op2(OpOf(mo), LeafOf(b), LeafOf(c)))))
      /\ Compiled(ExprStmt(<<a, mo, b, p, c>>)) =>
           Yields(Program(Op2(OpOf(p), Op2(OpOf(mo), LeafOf(a), LeafOf(b)), LeafOf(c))))

\* 2+3*4 has been compiled to Program(Add(2, Mul(3, 4))).
C7_Witness ==
  /\ Compiled(ExprStmt(<< IntLit(<<"2">>), Kw(PLUS, "+"), NumLit(<<"3", ".", "5">>),
                          Kw(STAR, "*"), Id("a") >>))
  /\ Yields(Program(Op2("Add", NewInteger(<<>>, 2),
                        Op2("Mul", NewNumber(<<>>, << <<7, 2>> >>),
                            NewIdentifier(<<>>, <<"a">>)))))

(* C8.  Unary minus binds tighter than every binary operator: -a o b       *)
(* parses to o(Uminus(a), b).                                              *)

C8_UnaryMinusBindsTightest ==
  Returned("t1", "Compile") =>
    \A a \in Leaves, b \in Leaves, o \in BinOps :
      Compiled(ExprStmt(<<Minus, a, o, b>>)) =>
        Yields(Program(Op2(OpOf(o), Op1("Uminus", LeafOf(a)), LeafOf(b))))

\* -a*2 has been compiled to Program(Mul(Uminus(a), 2)).
C8_Witness ==
  /\ Compiled(ExprStmt(<< Minus, Id("a"), Kw(STAR, "*"), IntLit(<<"2">>) >>))
  /\ Yields(Program(Op2("Mul", Op1("Uminus", NewIdentifier(<<>>, <<"a">>)),
                        NewInteger(<<>>, 2))))

(* C9.  The bodies of while and if.  WhileTree and IfTree are the trees    *)
(* the specification names.                                                *)

AssignTree(rhs) == Op2("Assign", NewIdentifier(<<>>, <<"x">>), rhs)

WhileTree ==
  Op2("While",
      Op2("Lt", NewIdentifier(<<>>, <<"a">>), NewInteger(<<>>, 10)),
      AssignTree(Op2("Add", NewIdentifier(<<>>, <<"x">>), NewInteger(<<>>, 1))))

IfTree ==
  Op3("If",
      Op2("Eq", NewIdentifier(<<>>, <<"a">>), NewInteger(<<>>, 1)),
      AssignTree(NewInteger(<<>>, 1)),
      AssignTree(NewInteger(<<>>, 2)))

C10_AnyLengthParses ==
  Returned("t1", "Compile") =>
    \A n \in 0..MaxEmpty :
      Compiled(EmptyStmts(n)) =>
        /\ th["t1"].ret[1].err = <<>>
        /\ WrappedOnce(Stored("A")[1])
        /\ \E k \in 1..(MaxEmpty + 1) : EosChain(Stored("A")[1].nodes[1], k)

\* C10 amended: a text of n >= 1 empty statements compiles, to a Program
\* node wrapping Eos nodes that join n sentinels (one sentinel for n = 1);
\* a text with no token at all is rejected with a syntax error.
C10_NonEmptyListsParse ==
  Returned("t1", "Compile") =>
    /\ \A n \in 1..MaxEmpty :
         Compiled(EmptyStmts(n)) =>
           /\ th["t1"].ret[1].err = <<>>
           /\ WrappedOnce(Stored("A")[1])
           /\ EosChain(Stored("A")[1].nodes[1], n)
    /\ Compiled(EmptyStmts(0)) => Rejected

\* A text of MaxEmpty empty statements has been compiled to a chain.
C10_Witness ==
  /\ Compiled(EmptyStmts(MaxEmpty))
  /\ th["t1"].ret[1].err = <<>>
  /\ EosChain(Stored("A")[1].nodes[1], MaxEmpty)

----------------------------------------------------------------------------
(* C11.  One Compile of a text with an unexpected token reports exactly    *)
(* one syntax error: when the parse ends, yyParse returns 1 having called  *)
(* Error once (Nerrs = 1), and the error Compile returns is "syntax error" *)
(* with the line and the column span of the token at which the parser      *)
(* found no action.                                                        *)

\* The diagnostic for a syntax error found with token tk delivered last.
SyntaxErrorAt(tk) ==
  << [line |-> tk.line, colStart |-> tk.col, colEnd |-> tk.col + Len(tk.s),
      msg |-> "syntax error"] >>

C11_OneSyntaxErrorPerCompile ==
  [][LeavesParse("t1") =>
       /\ \A e \in ErrorSources :
            th["t1"].src = << e.text >> =>
              /\ Pass("t1").status = "ret1"
              /\ th'["t1"].ret[1].err = SyntaxErrorAt(e.text.toks[e.at])
       /\ Pass("t1").status = "ret1" =>
            /\ Pass("t1").p.Nerrs = 1
            /\ th'["t1"].pc = "idle"
            /\ th'["t1"].ret[1].err = Pass("t1").heap[m["A"].lexer].lastError
            /\ th'["t1"].ret[1].err # <<>>
            /\ th'["t1"].ret[1].err[1].msg = "syntax error"]_vars

\* "a;" then "2 3;" on line 2 was rejected with the span of the 3.
C11_Witness ==
  /\ Compiled(SrcTwoOperands)
  /\ th["t1"].ret[1].err =
       << [line |-> 2, colStart |-> 1, colEnd |-> 2, msg |-> "syntax error"] >>

(* C12.  An ill-formed numeric literal is a recoverable error: a Compile   *)
(* whose integer() or number() conversion fails returns an error to its    *)
(* caller, and the process is never aborted.                               *)

C12_LiteralFailureIsRecoverable ==
  \A t \in Threads :
    /\ th[t].pc # "fatal"
    /\ th[t].src = << SrcOverflow >> =>
         (~crashed /\ (Returned(t, "Compile") => th[t].ret[1].err # <<>>))

(* C13.  Binary arithmetic operators of one precedence level associate to  *)
(* the left: for o1, o2 both additive or both multiplicative, a o1 b o2 c  *)
(* parses to o2(o1(a, b), c).                                              *)

C13_BinaryOperatorsLeftAssociative ==
  Returned("t1", "Compile") =>
    \A a \in Leaves, b \in Leaves, c \in Leaves :
      \A level \in {AddOps, MulOps} : \A o1 \in level, o2 \in level :
        Compiled(ExprStmt(<<a, o1, b, o2, c>>)) =>
          Yields(Program(Op2(OpOf(o2), Op2(OpOf(o1), LeafOf(a), LeafOf(b)), LeafOf(c))))

\* a/2*3.5 has been compiled to Program(Mul(Div(a, 2), 3.5)).
C13_Witness ==
  /\ Compiled(ExprStmt(<< Id("a"), Kw(SLASH, "/"), IntLit(<<"2">>), Kw(STAR, "*"),
                          NumLit(<<"3", ".", "5">>) >>))
  /\ Yields(Program(Op2("Mul", Op2("Div", NewIdentifier(<<>>, <<"a">>), NewInteger(<<>>, 2)),
                        NewNumber(<<>>, << <<7, 2>> >>))))

(* C14.  Statement order is preserved: a program of n >= 1 statements      *)
(* compiles to a tree whose two-child Eos nodes join the n statement       *)
(* subtrees so that a left-to-right depth-first traversal meets them in    *)
(* the order of the text, each exactly once.                               *)

\* The statement subtrees under the joining Eos nodes, left to right.
RECURSIVE Statements(_)
Statements(n) ==
  IF n.kind = "operand" /\ n.op = "Eos" /\ Len(n.nodes) = 2
  THEN Statements(n.nodes[1]) \o Statements(n.nodes[2])
  ELSE << n >>

\* The tree of a statement of SimpleStmts.
StmtTree(ls) ==
  CASE ls = << Id("a"), Semi >> -> NewIdentifier(<<>>, <<"a">>)
    [] ls = AssignTo("1") \o << Semi >> -> AssignTree(NewInteger(<<>>, 1))
    [] ls = WhileHead \o Block(AssignInc) -> WhileTree

C14_StatementOrderPreserved ==
  Returned("t1", "Compile") =>
    \A f \in StmtLists :
      Compiled(Text(Concat(f, Len(f)))) =>
        /\ th["t1"].ret[1].err = <<>>
        /\ WrappedOnce(Stored("A")[1])
        /\ Statements(Shape(Stored("A")[1].nodes[1])) = [k \in 1..Len(f) |-> StmtTree(f[k])]

\* "while a<10 {x=x+1;} x=1; a;" has been compiled to statements in that
\* order.
C14_Witness ==
  /\ Compiled(Text(WhileHead \o Block(AssignInc) \o AssignTo("1") \o << Semi, Id("a"), Semi >>))
  /\ th["t1"].ret[1].err = <<>>
  /\ Statements(Shape(Stored("A")[1].nodes[1])) =
       << WhileTree, AssignTree(NewInteger(<<>>, 1)), NewIdentifier(<<>>, <<"a">>) >>

(* C15.  The child count of every node of a compiled tree is the one fixed *)
(* for its kind.                                                           *)

Relational == {"Lt", "Gt", "Le", "Ge", "Ne", "Eq"}
Arithmetic == {"Add", "Sub", "Mul", "Div"}
LeafKinds == {"Integer", "Number", "Identifier"}

\* The number of children the kind op may have.
Arity(op) ==
  CASE op \in {"Program", "Uminus"} -> {1}
    [] op = "Eos" -> {0, 2}
    [] op \in {"Assign", "While"} \cup Relational \cup Arithmetic -> {2}
    [] op = "If" -> {3}
    [] OTHER -> {}

\* Every node of n has the child count of its kind, and the first child
\* of an Assign is an Identifier leaf.
RECURSIVE ArityFixed(_)
ArityFixed(n) ==
  IF n.kind = "leaf" THEN n.op \in LeafKinds /\ n.nodes = <<>>
  ELSE /\ n.kind = "operand"
       /\ Len(n.nodes) \in Arity(n.op)
       /\ n.op = "Assign" =>
            (n.nodes[1].kind = "leaf" /\ n.nodes[1].op = "Identifier")
       /\ \A k \in 1..Len(n.nodes) : ArityFixed(n.nodes[k])

\* The else branch of the if statement a compiled if text consists of.
ElseBranch == Stored("A")[1].nodes[1].nodes[3]

\* C15 as stated: the child counts are fixed, and the third child of an
\* If is a childless Eos sentinel exactly when the text has no else clause.
C15_ArityAndElseSentinel ==
  (Returned("t1", "Compile") /\ th["t1"].ret[1].err = <<>>) =>
    /\ ArityFixed(Stored("A")[1])
    /\ \A e \in IfSources :
         Compiled(e.text) => (EosSentinel(ElseBranch) <=> ~e.hasElse)

\* C15 amended: the child counts are fixed, and the third child of an If
\* is a childless Eos sentinel when the text has no else clause; it also
\* is one when the else block holds only an empty statement, and is the
\* tree of the else branch otherwise.
C15_ArityFixedPerKind ==
  (Returned("t1", "Compile") /\ th["t1"].ret[1].err = <<>>) =>
    /\ ArityFixed(Stored("A")[1])
    /\ Compiled(IfNoElse) => EosSentinel(ElseBranch)
    /\ Compiled(IfElseEmpty) => EosSentinel(ElseBranch)
    /\ Compiled(IfBlock) => Shape(ElseBranch) = AssignTree(NewInteger(<<>>, 2))
    /\ Compiled(IfElseIf) =>
         (ElseBranch.op = "If" /\ EosSentinel(ElseBranch.nodes[3]))

\* if a==1 {x=1;} has been compiled to an If whose third child is the
\* sentinel.
C15_Witness ==
  /\ Compiled(IfNoElse)
  /\ th["t1"].ret[1].err = <<>>
  /\ Stored("A")[1].nodes[1].op = "If"
  /\ ArityFixed(Stored("A")[1])
  /\ EosSentinel(ElseBranch)

(* C16.  In a compiled tree every node below the Program node, other than  *)
(* an Eos sentinel, carries debug information whose line number is a line  *)
(* of the compiled text and whose line text is that line; this includes    *)
(* the Identifier leaf that is the first child of an Assign.               *)

\* The debug information dbg points at a line of the text src.
RealLine(dbg, src) ==
  /\ dbg # <<>>
  /\ dbg[1].LineNo \in 1..src.nlines
  /\ dbg[1].Line = Idx(LineGenerator(src).lines, dbg[1].LineNo)

RECURSIVE AllDebug(_, _)
AllDebug(n, src) ==
  /\ EosSentinel(n) \/ RealLine(n.d, src)
  /\ \A k \in 1..Len(n.nodes) : AllDebug(n.nodes[k], src)

C16_EveryNodeHasDebugInfo ==
  (Returned("t1", "Compile") /\ th["t1"].ret[1].err = <<>>) =>
    AllDebug(Stored("A")[1].nodes[1], th["t1"].src[1])

(* C17.  The line number in a node's debug information is the line of the  *)
(* leading token of its construct, also when the construct spans lines or  *)
(* the token that triggers its reduction is on a later line: for the       *)
(* one-statement texts of LineSources, the statement's node has the line   *)
(* on which the statement begins.                                          *)

C17_DebugLineIsLeadingLine ==
  (Returned("t1", "Compile") /\ th["t1"].ret[1].err = <<>>) =>
    \A e \in LineSources :
      Compiled(e.text) =>
        /\ Stored("A")[1].nodes[1].d # <<>>
        /\ Stored("A")[1].nodes[1].d[1].LineNo = e.line

(* C18.  yyParse terminates: a parse that has started always leaves        *)
(* yyParse, and on every text whose literals the lexer can convert it      *)
(* does so by returning to Compile, which returns to its caller.           *)

C18_ParseTerminates ==
  /\ (th["t1"].pc = "yyParse" /\ th["t1"].src # << SrcOverflow >>)
       ~> Returned("t1", "Compile")
  /\ (th["t1"].pc = "yyParse") ~> (th["t1"].pc # "yyParse")

\* The parse of if a==1 {x=1;} else if a==1 {x=2;} has returned 0.
C18_Witness ==
  /\ Compiled(IfElseIf)
  /\ th["t1"].ret[1].err = <<>>
  /\ Stored("A")[1].nodes[1].nodes[3].op = "If"

(* C19.  No failure is swallowed: when yyParse returns 1, the lexer of     *)
(* this call, created with no error, holds an error, and Compile returns   *)
(* it; and Compile returns nil only when yyParse returned 0 and the lexer  *)
(* of this call holds no error.                                            *)

C19_NoFailureSwallowed ==
  [][\A t \in Threads :
       (LeavesParse(t) /\ th'[t].pc = "idle") =>
         \A r \in { Pass(t) } :
           /\ r.status = "ret1" =>
                /\ r.heap[th[t].lx].lastError # <<>>
                /\ th'[t].ret[1].err = r.heap[th[t].lx].lastError
           /\ th'[t].ret[1].err = <<>> =>
                /\ r.status = "ret0"
                /\ heap'[th[t].lx].lastError = <<>>]_vars

\* A Compile of ")" has returned the error its lexer holds.
C19_Witness ==
  \E t \in Threads :
    /\ Returned(t, "Compile")
    /\ th[t].src = << SrcBad >>
    /\ th[t].ret[1].err # <<>>
    /\ m[th[t].inst].lexer # 0
    /\ heap[m[th[t].inst].lexer].lastError = th[t].ret[1].err

(* C20.  No state shifts the error token, so yyParse never                 *)
(* resynchronizes: a running parse has Errflag = 0 and has reported no     *)
(* error, and the pass that finds the first unexpected token pops the      *)
(* whole stack and returns 1 without reading a token beyond the lookahead. *)
(* Hence the branch that discards tokens (Errflag = 3) is never taken and  *)
(* no shift decrements Errflag.                                            *)

\* The states of the tables.
States == 0..(Len(yyPact) - 1)

\* State s has a shift on the error token.
ShiftsError(s) ==
  /\ Idx(yyPact, s) + yyErrCode >= 0
  /\ Idx(yyPact, s) + yyErrCode < yyLast
  /\ Idx(yyChk, Idx(yyAct, Idx(yyPact, s) + yyErrCode)) = yyErrCode

C20_NeverResynchronizes ==
  /\ \A s \in States : ~ShiftsError(s)
  /\ \A t \in Threads :
       th[t].pc = "yyParse" =>
         /\ th[t].p[1].Errflag = 0
         /\ th[t].p[1].Nerrs = 0
         /\ Pass(t).p.Nerrs > 0 =>
              /\ Pass(t).status = "ret1"
              /\ Pass(t).p.yyp = -1
              /\ Pass(t).heap[th[t].lx].pos =
                   Fetch(th[t].p[1], heap, th[t].lx).heap[th[t].lx].pos

\* "a;" then "2 3;" was rejected at the 3, and the ';' after it was never
\* read.
C20_Witness ==
  /\ Compiled(SrcTwoOperands)
  /\ th["t1"].ret[1].err # <<>>
  /\ heap[m["A"].lexer].pos = 5
  /\ Len(SrcTwoOperands.toks) = 5

====
